---- MODULE Spec2Model ----
(***************************************************************************)
(* Gateway server of the food delivery application: backend registry,     *)
(* health monitor, dispatcher (round-robin and by type) and the proxying   *)
(* route handlers.                                                         *)
(*                                                                         *)
(* Node.js runs the gateway on one thread: a synchronous function          *)
(* (getNextBackend, getBackendByType, the GET /health handler, the part of *)
(* an async handler between two awaits) is one atomic step.  An await on   *)
(* axios is a suspension point: the step that follows it is enabled by the *)
(* upstream's answer.                                                      *)
(***************************************************************************)
EXTENDS Integers, Sequences, FiniteSets, TLC

VARIABLES
  backends,         \* the registry array
  roundRobinIndex,  \* the round-robin counter
  monitor,          \* position of checkHealthStatus: [pc, i], first: in the startup cycle
  probeLog,         \* history: outcome of each probe of the current/last cycle
  ret,              \* history: outcome of the most recent dispatcher call or GET /health
  rrLog,            \* history: ids returned by consecutive getNextBackend() calls
  rrBase,           \* history: counter value before the first call of rrLog
  calls,            \* history: the getNextBackend() calls that returned a backend
  reqs              \* inbound requests in flight, one record per connection

vars == <<backends, roundRobinIndex, monitor, probeLog, ret, rrLog, rrBase, calls, reqs>>

----------------------------------------------------------------------------
(* Bounds *)

\* getNextBackend() is called while the counter is below this value.
MaxIndex == 4

\* Number of inbound connections handled concurrently.
MaxReqs == 1

\* Largest registry getBackendByType is applied to when the configuration is
\* left open.
MaxBackends == 3

----------------------------------------------------------------------------
(* Registry *)

\* const backends = [ {id: 1, type: 'python', healthy: true}, {id: 2, type: 'node', healthy: true} ]
backendsConfig ==
  << [id |-> 1, url |-> "PYTHON_SERVER_URL", name |-> "Python Server (Orders)",
      type |-> "python", healthy |-> TRUE],
     [id |-> 2, url |-> "NODE_SERVER_URL", name |-> "Node Server (Users/Restaurants)",
      type |-> "node", healthy |-> TRUE] >>

\* Types a caller may pass to getBackendByType: the two configured ones and
\* one that no backend has.
Types == {"python", "node", "java"}

\* Value standing for "no backend" (the call threw).
NoBackend == 0

Indices == 1..Len(backendsConfig)

----------------------------------------------------------------------------
(* Load balancer *)

healthyFilterAll(bs) == bs

\* backends.filter(b => b.healthy)
healthyFilter(bs) == SelectSeq(bs, LAMBDA b : b.healthy)

rrPickFirst(hb, idx) == hb[1]

rrPickOffByOne(hb, idx) == hb[((idx + 1) % Len(hb)) + 1]

rrPickHalved(hb, idx) == hb[((idx \div 2) % Len(hb)) + 1]

\* healthyBackends[roundRobinIndex % healthyBackends.length]
rrPick(hb, idx) == hb[(idx % Len(hb)) + 1]

getNextBackendNoThrow(bs, idx) ==
  LET hb == healthyFilter(bs) IN
  IF Len(hb) = 0
    THEN [threw |-> FALSE, error |-> "", backend |-> bs[1].id, index |-> idx + 1]
    ELSE [threw |-> FALSE, error |-> "", backend |-> rrPick(hb, idx).id, index |-> idx + 1]

getNextBackendWrapping(bs, idx) ==
  LET hb == healthyFilter(bs) IN
  IF Len(hb) = 0
    THEN [threw |-> TRUE, error |-> "No healthy backends available",
          backend |-> NoBackend, index |-> idx]
    ELSE [threw |-> FALSE, error |-> "",
          backend |-> rrPick(hb, idx).id, index |-> (idx + 1) % Len(hb)]

getNextBackendCountingFailures(bs, idx) ==
  LET hb == healthyFilter(bs) IN
  IF Len(hb) = 0
    THEN [threw |-> TRUE, error |-> "No healthy backends available",
          backend |-> NoBackend, index |-> idx + 1]
    ELSE [threw |-> FALSE, error |-> "",
          backend |-> rrPick(hb, idx).id, index |-> idx + 1]

getNextBackendNoIncrement(bs, idx) ==
  LET hb == healthyFilter(bs) IN
  IF Len(hb) = 0
    THEN [threw |-> TRUE, error |-> "No healthy backends available",
          backend |-> NoBackend, index |-> idx]
    ELSE [threw |-> FALSE, error |-> "",
          backend |-> rrPick(hb, idx).id, index |-> idx]

\* function getNextBackend(): the value returned (or the error thrown) and
\* the counter after the call.
getNextBackend(bs, idx) ==
  LET hb == healthyFilter(bs) IN
  IF Len(hb) = 0
    THEN [threw |-> TRUE, error |-> "No healthy backends available",
          backend |-> NoBackend, index |-> idx]
    ELSE [threw |-> FALSE, error |-> "",
          backend |-> rrPick(hb, idx).id, index |-> idx + 1]

findLast(bs, S) ==
  IF S = {} THEN NoBackend
  ELSE bs[CHOOSE i \in S : \A j \in S : i >= j].id

\* Array.prototype.find: the first element, in array order, among those
\* satisfying the predicate (S is the set of their indices).
find(bs, S) ==
  IF S = {} THEN NoBackend
  ELSE bs[CHOOSE i \in S : \A j \in S : i <= j].id

getBackendByTypeIgnoringHealth(bs, type) ==
  LET id == find(bs, {i \in 1..Len(bs) : bs[i].type = type}) IN
  IF id = NoBackend
    THEN [threw |-> TRUE, error |-> type \o " backend unavailable", backend |-> NoBackend]
    ELSE [threw |-> FALSE, error |-> "", backend |-> id]

getBackendByTypeOrAnyHealthy(bs, type) ==
  LET id == find(bs, {i \in 1..Len(bs) : bs[i].type = type /\ bs[i].healthy})
      any == find(bs, {i \in 1..Len(bs) : bs[i].healthy}) IN
  IF id # NoBackend THEN [threw |-> FALSE, error |-> "", backend |-> id]
  ELSE IF any # NoBackend THEN [threw |-> FALSE, error |-> "", backend |-> any]
  ELSE [threw |-> TRUE, error |-> type \o " backend unavailable", backend |-> NoBackend]

getBackendByTypeElseNext(bs, type) ==
  LET id == find(bs, {i \in 1..Len(bs) : bs[i].type = type /\ bs[i].healthy})
      hb == healthyFilter(bs) IN
  IF id # NoBackend THEN [threw |-> FALSE, error |-> "", backend |-> id]
  ELSE IF Len(hb) > 0
    THEN [threw |-> FALSE, error |-> "", backend |-> rrPick(hb, roundRobinIndex).id]
  ELSE [threw |-> TRUE, error |-> type \o " backend unavailable", backend |-> NoBackend]

\* function getBackendByType(type)
getBackendByType(bs, type) ==
  LET id == find(bs, {i \in 1..Len(bs) : bs[i].type = type /\ bs[i].healthy}) IN
  IF id = NoBackend
    THEN [threw |-> TRUE, error |-> type \o " backend unavailable", backend |-> NoBackend]
    ELSE [threw |-> FALSE, error |-> "", backend |-> id]

----------------------------------------------------------------------------
(* Health monitor *)

\* What a probe GET <url>/health can come to: an HTTP answer with a status,
\* a connection error, or no answer within the 5000 ms timeout.
ProbeOutcomes ==
  { [kind |-> "response", status |-> 200],
    [kind |-> "response", status |-> 204],
    [kind |-> "response", status |-> 503],
    [kind |-> "error", status |-> 0],
    [kind |-> "timeout", status |-> 0] }

NoProbe == [kind |-> "none", status |-> 0]

\* axios resolves the promise for a 2xx status (default validateStatus) and
\* rejects it for any other status, a connection error or a timeout.
axiosResolves(o) == o.kind = "response" /\ o.status >= 200 /\ o.status < 300

probeHealthyAny2xx(o) == axiosResolves(o)

\* try { backend.healthy = response.status === 200 } catch { backend.healthy = false }
probeHealthy(o) == IF axiosResolves(o) THEN o.status = 200 ELSE FALSE

\* setInterval(checkHealthStatus, 30000) fires: the cycle starts and runs up
\* to its first await.  A cycle lasts at most two probe timeouts (10 s), so
\* the previous cycle has ended when the timer fires.
checkHealthStatusStart ==
  /\ monitor.pc = "idle"
  /\ monitor' = [pc |-> "await", i |-> 1, first |-> FALSE]
  /\ probeLog' = [i \in Indices |-> NoProbe]
  /\ UNCHANGED <<backends, roundRobinIndex, ret, rrLog, rrBase, calls, reqs>>

checkHealthStatusProbeNoCatch(o) ==
  /\ monitor.pc = "await"
  /\ LET i == monitor.i
         h == IF axiosResolves(o) THEN o.status = 200 ELSE backends[i].healthy IN
       /\ backends' = [backends EXCEPT ![i].healthy = h]
       /\ probeLog' = [probeLog EXCEPT ![i] = o]
       /\ monitor' = IF ~axiosResolves(o) THEN [pc |-> "crashed", i |-> i, first |-> monitor.first]
                     ELSE IF i < Len(backends)
                       THEN [pc |-> "await", i |-> i + 1, first |-> monitor.first]
                       ELSE [pc |-> "idle", i |-> 0, first |-> FALSE]
       /\ rrLog' = IF h = backends[i].healthy THEN rrLog ELSE << >>
       /\ rrBase' = IF h = backends[i].healthy THEN rrBase ELSE roundRobinIndex
  /\ UNCHANGED <<roundRobinIndex, ret, calls, reqs>>

checkHealthStatusProbeSticky(o) ==
  /\ monitor.pc = "await"
  /\ LET i == monitor.i
         h == backends[i].healthy /\ probeHealthy(o) IN
       /\ backends' = [backends EXCEPT ![i].healthy = h]
       /\ probeLog' = [probeLog EXCEPT ![i] = o]
       /\ monitor' = IF i < Len(backends)
                       THEN [pc |-> "await", i |-> i + 1, first |-> monitor.first]
                       ELSE [pc |-> "idle", i |-> 0, first |-> FALSE]
       /\ rrLog' = IF h = backends[i].healthy THEN rrLog ELSE << >>
       /\ rrBase' = IF h = backends[i].healthy THEN rrBase ELSE roundRobinIndex
  /\ UNCHANGED <<roundRobinIndex, ret, calls, reqs>>

\* The awaited probe of backends[monitor.i] settles with outcome o: the flag
\* is written, and the loop goes to the next backend or ends.
checkHealthStatusProbe(o) ==
  /\ monitor.pc = "await"
  /\ LET i == monitor.i
         h == probeHealthy(o) IN
       /\ backends' = [backends EXCEPT ![i].healthy = h]
       /\ probeLog' = [probeLog EXCEPT ![i] = o]
       /\ monitor' = IF i < Len(backends)
                       THEN [pc |-> "await", i |-> i + 1, first |-> monitor.first]
                       ELSE [pc |-> "idle", i |-> 0, first |-> FALSE]
       /\ rrLog' = IF h = backends[i].healthy THEN rrLog ELSE << >>
       /\ rrBase' = IF h = backends[i].healthy THEN rrBase ELSE roundRobinIndex
  /\ UNCHANGED <<roundRobinIndex, ret, calls, reqs>>

----------------------------------------------------------------------------
(* Dispatcher calls *)

\* History of the latest getBackendByType call: its argument, the flags it
\* saw, what it gave, whether getNextBackend() has returned a backend since
\* (sel), and whether it repeated the call before it, same argument and same
\* flags, with such a selection in between (again).
NoPrev == [arg |-> "", flags |-> << >>, threw |-> FALSE, error |-> "",
           backend |-> NoBackend, sel |-> FALSE, again |-> FALSE]

NoRet == [op |-> "none", arg |-> "", threw |-> FALSE, error |-> "",
          backend |-> NoBackend, status |-> 0, list |-> << >>, prev |-> NoPrev]

\* The healthy flags, in registration order.
Flags(bs) == [i \in 1..Len(bs) |-> bs[i].healthy]

\* History of the getNextBackend() calls that returned a backend: their
\* number (ok), the counter values they read (used), the backend the latest
\* of them returned (last), and whether it is the backend the one before it
\* returned although another backend was flagged healthy as well (repeat).
NoCalls == [ok |-> 0, used |-> {}, last |-> NoBackend, repeat |-> FALSE]

\* A call of getNextBackend().
CallGetNextBackend ==
  /\ roundRobinIndex < MaxIndex
  /\ LET r == getNextBackend(backends, roundRobinIndex) IN
       /\ roundRobinIndex' = r.index
       /\ calls' = IF r.threw THEN calls
                   ELSE [ok |-> calls.ok + 1,
                         used |-> calls.used \cup {roundRobinIndex},
                         last |-> r.backend,
                         repeat |-> /\ calls.last = r.backend
                                    /\ Len(healthyFilter(backends)) >= 2]
       /\ ret' = [NoRet EXCEPT !.op = "getNextBackend", !.threw = r.threw,
                               !.error = r.error, !.backend = r.backend,
                               !.prev = [ret.prev EXCEPT !.sel = @ \/ ~r.threw]]
       /\ IF r.threw
            THEN UNCHANGED <<rrLog, rrBase>>
            ELSE IF Len(rrLog) < Len(backends)
              THEN rrLog' = Append(rrLog, r.backend) /\ rrBase' = rrBase
              ELSE rrLog' = Append(Tail(rrLog), r.backend) /\ rrBase' = rrBase + 1
  /\ UNCHANGED <<backends, monitor, probeLog, reqs>>

\* A call of getBackendByType(type).
CallGetBackendByType(type) ==
  /\ LET r == getBackendByType(backends, type) IN
       ret' = [NoRet EXCEPT !.op = "getBackendByType", !.arg = type, !.threw = r.threw,
                            !.error = r.error, !.backend = r.backend,
                            !.prev = [arg |-> type, flags |-> Flags(backends),
                                      threw |-> r.threw, error |-> r.error,
                                      backend |-> r.backend, sel |-> FALSE,
                                      again |-> /\ ret.prev.arg = type
                                                /\ ret.prev.flags = Flags(backends)
                                                /\ ret.prev.sel]]
  /\ UNCHANGED <<backends, roundRobinIndex, monitor, probeLog, rrLog, rrBase, calls, reqs>>

healthListAllTrue(bs) == [i \in 1..Len(bs) |-> [name |-> bs[i].name, healthy |-> TRUE]]

\* backends.map(b => ({ name: b.name, healthy: b.healthy }))
healthList(bs) == [i \in 1..Len(bs) |-> [name |-> bs[i].name, healthy |-> bs[i].healthy]]

\* app.get('/health'): res.json(...) answers with the default status 200.
GatewayHealth ==
  /\ ret' = [NoRet EXCEPT !.op = "health", !.status = 200, !.list = healthList(backends),
                          !.prev = ret.prev]
  /\ UNCHANGED <<backends, roundRobinIndex, monitor, probeLog, rrLog, rrBase, calls, reqs>>

----------------------------------------------------------------------------
(* Route handlers *)

\* The proxying routes, in the order the file registers them.  type is the
\* argument of getBackendByType, timeout the axios timeout option (0: none
\* given, axios waits without limit), catchStatus and catchMsg the status
\* and message of the catch block, style its shape:
\*   "fixed"     res.status(S).json({ error: M })
\*   "upstream"  res.status(S).json({ error: error.response?.data?.error || M })
\*   "relay"     error.response ? res.status(error.response.status).json(error.response.data)
\*                              : res.status(500).json({ error: M + error.message })
RouteTable ==
  << [verb |-> "POST", path |-> "/api/auth/register", type |-> "node",
      upstream |-> "/users/register", timeout |-> 0,
      catchStatus |-> 500, catchMsg |-> "Registration failed", style |-> "fixed"],
     [verb |-> "POST", path |-> "/api/auth/login", type |-> "node",
      upstream |-> "/users/login", timeout |-> 0,
      catchStatus |-> 500, catchMsg |-> "Login failed", style |-> "fixed"],
     [verb |-> "GET", path |-> "/api/restaurants", type |-> "node",
      upstream |-> "/restaurants", timeout |-> 0,
      catchStatus |-> 500, catchMsg |-> "Failed to fetch restaurants", style |-> "fixed"],
     [verb |-> "GET", path |-> "/api/restaurants/:id", type |-> "node",
      upstream |-> "/restaurants/:id", timeout |-> 0,
      catchStatus |-> 500, catchMsg |-> "Restaurant not found", style |-> "fixed"],
     [verb |-> "GET", path |-> "/api/restaurants/:id/menu", type |-> "node",
      upstream |-> "/restaurants/:id/menu", timeout |-> 0,
      catchStatus |-> 500, catchMsg |-> "Menu not found", style |-> "fixed"],
     [verb |-> "GET", path |-> "/api/locations", type |-> "node",
      upstream |-> "/locations", timeout |-> 0,
      catchStatus |-> 500, catchMsg |-> "Failed to fetch locations", style |-> "fixed"],
     [verb |-> "POST", path |-> "/api/orders", type |-> "python",
      upstream |-> "/orders", timeout |-> 10000,
      catchStatus |-> 500, catchMsg |-> "Order creation failed: ", style |-> "relay"],
     [verb |-> "GET", path |-> "/api/orders", type |-> "python",
      upstream |-> "/orders?user_id=", timeout |-> 0,
      catchStatus |-> 500, catchMsg |-> "Failed to fetch orders", style |-> "fixed"],
     [verb |-> "GET", path |-> "/api/orders/:id", type |-> "python",
      upstream |-> "/orders/:id", timeout |-> 0,
      catchStatus |-> 500, catchMsg |-> "Order not found", style |-> "fixed"],
     [verb |-> "POST", path |-> "/api/admin/login", type |-> "node",
      upstream |-> "/admin/login", timeout |-> 0,
      catchStatus |-> 401, catchMsg |-> "Admin login failed", style |-> "fixed"],
     [verb |-> "GET", path |-> "/api/admin/orders", type |-> "python",
      upstream |-> "/admin/orders", timeout |-> 0,
      catchStatus |-> 500, catchMsg |-> "Failed to fetch orders", style |-> "fixed"],
     [verb |-> "PUT", path |-> "/api/admin/orders/:order_id/status", type |-> "python",
      upstream |-> "/admin/orders/:order_id/status", timeout |-> 0,
      catchStatus |-> 500, catchMsg |-> "Failed to update order status", style |-> "fixed"],
     [verb |-> "POST", path |-> "/api/restaurant/register", type |-> "node",
      upstream |-> "/restaurant/register", timeout |-> 0,
      catchStatus |-> 400, catchMsg |-> "Registration failed", style |-> "upstream"],
     [verb |-> "POST", path |-> "/api/restaurant/login", type |-> "node",
      upstream |-> "/restaurant/login", timeout |-> 0,
      catchStatus |-> 401, catchMsg |-> "Login failed", style |-> "upstream"],
     [verb |-> "GET", path |-> "/api/restaurant/:id/menu", type |-> "node",
      upstream |-> "/restaurant/:id/menu", timeout |-> 0,
      catchStatus |-> 500, catchMsg |-> "Failed to fetch menu", style |-> "fixed"],
     [verb |-> "POST", path |-> "/api/restaurant/menu/add", type |-> "node",
      upstream |-> "/restaurant/menu/add", timeout |-> 0,
      catchStatus |-> 500, catchMsg |-> "Failed to add menu item", style |-> "upstream"],
     [verb |-> "DELETE", path |-> "/api/restaurant/menu/:item_id", type |-> "node",
      upstream |-> "/restaurant/menu/:item_id", timeout |-> 0,
      catchStatus |-> 500, catchMsg |-> "Failed to delete menu item", style |-> "fixed"],
     [verb |-> "GET", path |-> "/api/restaurant/:id/orders", type |-> "python",
      upstream |-> "/restaurant/:id/orders", timeout |-> 0,
      catchStatus |-> 500, catchMsg |-> "Failed to fetch orders", style |-> "fixed"],
     [verb |-> "PUT", path |-> "/api/restaurant/orders/:order_id/status", type |-> "python",
      upstream |-> "/restaurant/orders/:order_id/status", timeout |-> 0,
      catchStatus |-> 500, catchMsg |-> "Failed to update order status", style |-> "fixed"] >>

Routes == 1..Len(RouteTable)

\* A JSON body: error is the value of its "error" member ("" when the body
\* has none), body stands for the rest of the object.
Json(e, b) == [error |-> e, body |-> b]

\* What an upstream call can come to: an HTTP answer (status, JSON body), a
\* transport failure (connection refused or reset), or no answer at all.
UpstreamOutcomes ==
  { [kind |-> "response", status |-> 200, data |-> Json("", "restaurants")],
    [kind |-> "response", status |-> 201, data |-> Json("", "order_id X")],
    [kind |-> "response", status |-> 400, data |-> Json("Email already registered", "")],
    [kind |-> "response", status |-> 500, data |-> Json("", "Internal Server Error")],
    [kind |-> "neterror", status |-> 0, data |-> Json("", "")],
    [kind |-> "silent", status |-> 0, data |-> Json("", "")] }

NoOutcome == [kind |-> "none", status |-> 0, data |-> Json("", "")]

NoResp == [status |-> 0, data |-> Json("", "")]

\* A free connection.  Of a request: st is the handler's position, backend
\* the id the upstream call went to, upstream what that call came to, resp
\* the answer written, via the code that wrote it ("try", "catch" or
\* "fallback"), nresp the number of answers written.
IdleReq == [st |-> "idle", route |-> 0, backend |-> NoBackend,
            upstream |-> NoOutcome, resp |-> NoResp, via |-> "", nresp |-> 0]

\* The body of an inbound request as express.json() finds it.
Bodies == {"json", "malformed"}

\* app.use((err, req, res, next) => res.status(500).json({ error: 'Internal gateway error' }))
fallbackResponse == [status |-> 500, data |-> Json("Internal gateway error", "")]

\* The Error thrown by getBackendByType: it carries no response.
dispatchError(msg) == [message |-> msg, hasResponse |-> FALSE, response |-> NoResp]

\* The error axios rejects with: for a non-2xx answer it carries the
\* response, for a transport failure or a timeout it carries none.
axiosError(o) ==
  CASE o.kind = "response" ->
         [message |-> "Request failed with status code",
          hasResponse |-> TRUE, response |-> [status |-> o.status, data |-> o.data]]
    [] o.kind = "neterror" ->
         [message |-> "connect ECONNREFUSED", hasResponse |-> FALSE, response |-> NoResp]
    [] o.kind = "silent" ->
         [message |-> "timeout of 10000ms exceeded", hasResponse |-> FALSE, response |-> NoResp]

successResponseOk(o) == [status |-> 200, data |-> o.data]

\* res.status(response.status).json(response.data)
successResponse(o) == [status |-> o.status, data |-> o.data]

\* The catch block of the route's handler.
catchResponse(route, err) ==
  LET R == RouteTable[route] IN
  CASE R.style = "fixed" ->
         [status |-> R.catchStatus, data |-> Json(R.catchMsg, "")]
    [] R.style = "upstream" ->
         [status |-> R.catchStatus,
          data |-> Json(IF err.hasResponse /\ err.response.data.error # ""
                          THEN err.response.data.error ELSE R.catchMsg, "")]
    [] R.style = "relay" ->
         IF err.hasResponse
           THEN err.response
           ELSE [status |-> R.catchStatus, data |-> Json(R.catchMsg \o err.message, "")]

ReceiveForwardingAnyway(r, route, body) ==
  /\ reqs[r].st = "idle"
  /\ LET sel == getBackendByType(backends, RouteTable[route].type)
         any == find(backends, {i \in 1..Len(backends) :
                                  backends[i].type = RouteTable[route].type}) IN
       reqs' = [reqs EXCEPT ![r] =
                  IF body = "malformed"
                    THEN [IdleReq EXCEPT !.st = "done", !.route = route,
                            !.resp = fallbackResponse, !.via = "fallback", !.nresp = 1]
                  ELSE IF sel.threw
                    THEN [IdleReq EXCEPT !.st = "await", !.route = route, !.backend = any]
                    ELSE [IdleReq EXCEPT !.st = "await", !.route = route,
                            !.backend = sel.backend]]
  /\ UNCHANGED <<backends, roundRobinIndex, monitor, probeLog, ret, rrLog, rrBase, calls>>

\* An inbound request for the route arrives on the free connection r.  A
\* body express.json() cannot parse goes to the error handler, which answers.
\* Otherwise the route's handler runs up to its await: getBackendByType
\* either throws, and the catch block answers, or gives the backend the
\* upstream call is sent to.
Receive(r, route, body) ==
  /\ reqs[r].st = "idle"
  /\ LET sel == getBackendByType(backends, RouteTable[route].type) IN
       reqs' = [reqs EXCEPT ![r] =
                  IF body = "malformed"
                    THEN [IdleReq EXCEPT !.st = "done", !.route = route,
                            !.resp = fallbackResponse, !.via = "fallback", !.nresp = 1]
                  ELSE IF sel.threw
                    THEN [IdleReq EXCEPT !.st = "done", !.route = route,
                            !.resp = catchResponse(route, dispatchError(sel.error)),
                            !.via = "catch", !.nresp = 1]
                    ELSE [IdleReq EXCEPT !.st = "await", !.route = route,
                            !.backend = sel.backend]]
  /\ UNCHANGED <<backends, roundRobinIndex, monitor, probeLog, ret, rrLog, rrBase, calls>>

UpstreamMarkingUnhealthy(r, o) ==
  /\ reqs[r].st = "await"
  /\ LET route == reqs[r].route
         t == RouteTable[route].timeout IN
       reqs' = [reqs EXCEPT ![r] =
                  IF axiosResolves(o)
                    THEN [@ EXCEPT !.st = "done", !.upstream = o, !.resp = successResponse(o),
                                   !.via = "try", !.nresp = @ + 1]
                  ELSE IF o.kind = "silent" /\ t = 0
                    THEN [@ EXCEPT !.st = "hung", !.upstream = o]
                  ELSE [@ EXCEPT !.st = "done", !.upstream = o,
                                 !.resp = catchResponse(route, axiosError(o)),
                                 !.via = "catch", !.nresp = @ + 1]]
  /\ backends' = IF o.kind = "neterror"
                   THEN [i \in 1..Len(backends) |->
                           IF backends[i].id = reqs[r].backend
                             THEN [backends[i] EXCEPT !.healthy = FALSE]
                             ELSE backends[i]]
                   ELSE backends
  /\ UNCHANGED <<roundRobinIndex, monitor, probeLog, ret, rrLog, rrBase, calls>>

\* The upstream call of request r comes to outcome o and the handler resumes:
\* a 2xx answer is relayed, anything else goes to the catch block.  A call
\* without timeout option to an upstream that never answers never settles.
Upstream(r, o) ==
  /\ reqs[r].st = "await"
  /\ LET route == reqs[r].route
         t == RouteTable[route].timeout IN
       reqs' = [reqs EXCEPT ![r] =
                  IF axiosResolves(o)
                    THEN [@ EXCEPT !.st = "done", !.upstream = o, !.resp = successResponse(o),
                                   !.via = "try", !.nresp = @ + 1]
                  ELSE IF o.kind = "silent" /\ t = 0
                    THEN [@ EXCEPT !.st = "hung", !.upstream = o]
                  ELSE [@ EXCEPT !.st = "done", !.upstream = o,
                                 !.resp = catchResponse(route, axiosError(o)),
                                 !.via = "catch", !.nresp = @ + 1]]
  /\ UNCHANGED <<backends, roundRobinIndex, monitor, probeLog, ret, rrLog, rrBase, calls>>

----------------------------------------------------------------------------
(* Specification *)

\* State when the module has been loaded: the registry as configured, the
\* counter at 0, and the initial checkHealthStatus() run up to its first await.
Init ==
  /\ backends = backendsConfig
  /\ roundRobinIndex = 0
  /\ monitor = [pc |-> "await", i |-> 1, first |-> TRUE]
  /\ probeLog = [i \in Indices |-> NoProbe]
  /\ ret = NoRet
  /\ rrLog = << >>
  /\ rrBase = 0
  /\ calls = NoCalls
  /\ reqs = [r \in 1..MaxReqs |-> IdleReq]

MonitorStep ==
  \/ checkHealthStatusStart
  \/ \E o \in ProbeOutcomes : checkHealthStatusProbe(o)

NextLB ==
  \/ MonitorStep
  \/ CallGetNextBackend
  \/ \E type \in Types : CallGetBackendByType(type)
  \/ GatewayHealth

\* The load balancer on its own: monitor, dispatcher calls, GET /health.
SpecLB == Init /\ [][NextLB]_vars

\* The caller has read the answer written by res.json: the exchange on
\* connection r is over and the connection is free again.
Finish(r) ==
  /\ reqs[r].st = "done"
  /\ reqs' = [reqs EXCEPT ![r] = IdleReq]
  /\ UNCHANGED <<backends, roundRobinIndex, monitor, probeLog, ret, rrLog, rrBase, calls>>

NextProxy ==
  \/ MonitorStep
  \/ \E r \in 1..MaxReqs, route \in Routes, body \in Bodies : Receive(r, route, body)
  \/ \E r \in 1..MaxReqs, o \in UpstreamOutcomes : Upstream(r, o)
  \/ \E r \in 1..MaxReqs : Finish(r)

\* The proxying routes with the monitor running.
SpecProxy == Init /\ [][NextProxy]_vars

Next == NextLB \/ NextProxy

\* A registry as the backends array could be configured: backends of the
\* given types with the given flags, ids in registration order.
RegistryOf(types, flags) ==
  [i \in 1..Len(types) |->
     [id |-> i, url |-> "", name |-> "", type |-> types[i], healthy |-> flags[i]]]

\* The registries of up to MaxBackends backends, several of which may have
\* the same type.
Registries ==
  UNION { {RegistryOf(t, f) : t \in [1..n -> {"python", "node"}], f \in [1..n -> BOOLEAN]}
            : n \in 1..MaxBackends }

InitAnyRegistry ==
  /\ backends \in Registries
  /\ roundRobinIndex = 0
  /\ monitor = [pc |-> "await", i |-> 1, first |-> TRUE]
  /\ probeLog = [i \in Indices |-> NoProbe]
  /\ ret = NoRet
  /\ rrLog = << >>
  /\ rrBase = 0
  /\ calls = NoCalls
  /\ reqs = [r \in 1..MaxReqs |-> IdleReq]

NextByType == \E type \in Types : CallGetBackendByType(type)

\* getBackendByType applied to any registry.
SpecByType == InitAnyRegistry /\ [][NextByType]_vars

Spec == Init /\ [][Next]_vars

\* Routes taken for the handlers that run beside round-robin callers: one
\* bound to the node backend (POST /api/auth/register) and one bound to the
\* python backend (POST /api/orders).
SelectRoutes == {1, 7}

NextSelect ==
  \/ MonitorStep
  \/ CallGetNextBackend
  \/ \E r \in 1..MaxReqs, route \in SelectRoutes : Receive(r, route, "json")
  \/ \E r \in 1..MaxReqs, o \in UpstreamOutcomes : Upstream(r, o)
  \/ \E r \in 1..MaxReqs : Finish(r)

\* Round-robin callers beside the monitor and request handlers awaiting
\* their upstream calls.
SpecSelect == Init /\ [][NextSelect]_vars

NextMonitor ==
  \/ MonitorStep
  \/ CallGetNextBackend

\* The monitor with round-robin callers, under fair scheduling: the interval
\* timer fires every 30 s and each probe settles within its 5 s timeout, so a
\* monitor step that stays possible is taken.
SpecMonitorFair == Init /\ [][NextMonitor]_vars /\ WF_vars(MonitorStep)

----------------------------------------------------------------------------
(* Properties of the load balancer, checked under SpecLB *)

\* Indices of the backends flagged healthy in the current state.
Live == {i \in Indices : backends[i].healthy}

\* Ids of the backends flagged healthy, in registration order.
LiveIds ==
  LET ids == [i \in Indices |-> backends[i].id] IN
  SelectSeq(ids, LAMBDA id : \E i \in Live : backends[i].id = id)

\* C1: getBackendByType(cap) returns a backend of type cap flagged healthy
\* when there is one, and throws '<cap> backend unavailable' when there is
\* none (no backend of that type, or it is flagged unhealthy); it never
\* returns a backend of another type or one flagged unhealthy.
C1_ByTypeSelection ==
  [][\A type \in Types : CallGetBackendByType(type) =>
       LET M == {i \in Live : backends[i].type = type} IN
       IF M # {}
         THEN /\ ~ret'.threw
              /\ \E i \in M : ret'.backend = backends[i].id
         ELSE /\ ret'.threw
              /\ ret'.backend = NoBackend
              /\ ret'.error = type \o " backend unavailable"]_vars

\* getBackendByType('node') returned the node backend while the python
\* backend was flagged unhealthy.
C1_Witness ==
  /\ ret.op = "getBackendByType" /\ ret.arg = "node" /\ ret.backend = 2
  /\ ~backends[1].healthy /\ backends[2].healthy

\* C2: while no flag changes, any N consecutive getNextBackend() calls over
\* N >= 1 healthy backends return each healthy backend exactly once, in
\* registration order rotated by the counter value before the first call.
C2_RoundRobinFair ==
  LET N == Len(LiveIds) IN
  \A s \in 1..Len(rrLog) :
    (N >= 1 /\ s + N - 1 <= Len(rrLog)) =>
      /\ \A k \in 0..(N - 1) : rrLog[s + k] = LiveIds[((rrBase + (s - 1) + k) % N) + 1]
      /\ {rrLog[s + k] : k \in 0..(N - 1)} = {LiveIds[j] : j \in 1..N}
      /\ \A k1, k2 \in 0..(N - 1) : k1 # k2 => rrLog[s + k1] # rrLog[s + k2]

\* Two consecutive calls over two healthy backends, starting from an odd
\* counter value: the rotation starts at the second backend.
C2_Witness ==
  /\ Len(LiveIds) = 2 /\ Len(rrLog) = 2 /\ rrBase = 1
  /\ rrLog = <<2, 1>>

\* C3: getNextBackend() throws 'No healthy backends available' and returns
\* no backend when no backend is flagged healthy, and returns a backend
\* whenever at least one is flagged healthy.
C3_NoHealthyBackends ==
  [][CallGetNextBackend =>
       IF Live = {}
         THEN /\ ret'.threw
              /\ ret'.error = "No healthy backends available"
              /\ ret'.backend = NoBackend
         ELSE /\ ~ret'.threw
              /\ ret'.backend # NoBackend]_vars

\* getNextBackend() was called with every backend flagged unhealthy.
C3_Witness ==
  /\ ret.op = "getNextBackend" /\ ret.threw
  /\ Live = {}

\* C4: getNextBackend() never returns a backend whose flag is false at the
\* moment of the call, whatever selections and probe updates came before.
C4_NeverUnhealthy ==
  [][CallGetNextBackend =>
       \A i \in Indices : ~backends[i].healthy => ret'.backend # backends[i].id]_vars

\* Since the monitor flagged the python backend unhealthy, two selections
\* were made and both returned the node backend.
C4_Witness ==
  /\ ~backends[1].healthy /\ backends[2].healthy
  /\ probeLog[1].kind = "error"
  /\ ret.op = "getNextBackend" /\ rrLog = <<2, 2>>

\* C5: when a probe cycle has completed, each backend's flag is true iff its
\* probe of that cycle answered with status 200; any other status, a
\* connection error or a timeout leaves it false, whatever it was before.
C5_ProbeCycle ==
  monitor.pc = "idle" =>
    \A i \in Indices :
      backends[i].healthy <=> (probeLog[i].kind = "response" /\ probeLog[i].status = 200)

\* A cycle completed in which the first probe timed out and the second
\* answered 200.
C5_Witness ==
  /\ monitor.pc = "idle"
  /\ probeLog[1].kind = "timeout" /\ probeLog[2].status = 200
  /\ ~backends[1].healthy /\ backends[2].healthy

\* C6: GET /health answers 200 in every registry state, lists one
\* {name, healthy} entry per backend in registration order with the flag's
\* current value, and changes neither the registry nor the counter.
C6_GatewayHealth ==
  [][GatewayHealth =>
       /\ ret'.status = 200
       /\ Len(ret'.list) = Len(backends)
       /\ \A i \in Indices :
            ret'.list[i] = [name |-> backends[i].name, healthy |-> backends[i].healthy]
       /\ backends' = backends
       /\ roundRobinIndex' = roundRobinIndex]_vars

\* GET /health was answered while every backend was flagged unhealthy.
C6_Witness ==
  /\ ret.op = "health" /\ ret.status = 200
  /\ \A i \in Indices : ~ret.list[i].healthy

----------------------------------------------------------------------------
(* Properties of the route handlers, checked under SpecProxy *)

\* Request r has been answered.
Answered(r) == reqs[r].st = "done"

\* The upstream of request r answered with a 2xx status.
Upstream2xx(r) ==
  /\ reqs[r].upstream.kind = "response"
  /\ reqs[r].upstream.status >= 200 /\ reqs[r].upstream.status < 300

\* The upstream of request r answered with a status outside 2xx.
UpstreamNon2xx(r) ==
  /\ reqs[r].upstream.kind = "response"
  /\ ~(reqs[r].upstream.status >= 200 /\ reqs[r].upstream.status < 300)

\* Request r failed in dispatch (no backend selected, no upstream call made).
DispatchFailed(r) == Answered(r) /\ reqs[r].via = "catch" /\ reqs[r].backend = NoBackend

\* The upstream call of request r failed at transport level.
TransportFailed(r) == Answered(r) /\ reqs[r].upstream.kind \in {"neterror", "silent"}

\* The errors a handler's catch block can receive without a response.
FailureErrors ==
  {dispatchError(t \o " backend unavailable") : t \in {"python", "node"}}
    \cup {axiosError(o) : o \in {u \in UpstreamOutcomes : u.kind \in {"neterror", "silent"}}}

\* C7: on every proxied route, a 2xx upstream answer (status s, body d) is
\* answered to the caller with exactly status s and body d.
C7_SuccessPassThrough ==
  \A r \in 1..MaxReqs :
    (Answered(r) /\ Upstream2xx(r)) =>
      /\ reqs[r].resp.status = reqs[r].upstream.status
      /\ reqs[r].resp.data = reqs[r].upstream.data

\* POST /api/orders whose upstream answered 201 {order_id: X}.
C7_Witness ==
  \E r \in 1..MaxReqs :
    /\ Answered(r) /\ RouteTable[reqs[r].route].path = "/api/orders"
    /\ RouteTable[reqs[r].route].verb = "POST"
    /\ reqs[r].upstream.status = 201
    /\ reqs[r].resp = [status |-> 201, data |-> Json("", "order_id X")]

\* C8: on every proxied route, a non-2xx upstream answer (status s, body d)
\* is answered to the caller with exactly status s and body d.
C8_BusinessErrorPassThrough ==
  \A r \in 1..MaxReqs :
    (Answered(r) /\ UpstreamNon2xx(r)) =>
      /\ reqs[r].resp.status = reqs[r].upstream.status
      /\ reqs[r].resp.data = reqs[r].upstream.data

\* C9: on every proxied route, a dispatch failure or a transport failure is
\* answered with a JSON error body and status 500 or 502; on POST
\* /api/orders the message is the order-creation one.
C9_FailureIs5xx ==
  \A r \in 1..MaxReqs :
    (DispatchFailed(r) \/ TransportFailed(r)) =>
      /\ reqs[r].resp.status \in {500, 502}
      /\ reqs[r].resp.data.error # ""
      /\ (RouteTable[reqs[r].route].verb = "POST" /\ RouteTable[reqs[r].route].path = "/api/orders")
           => \E e \in FailureErrors :
                reqs[r].resp.data.error = "Order creation failed: " \o e.message

\* C10: the message answered for a dispatch or transport failure is the
\* message of no other route for such a failure.
C10_DistinctMessages ==
  \A r \in 1..MaxReqs :
    (DispatchFailed(r) \/ TransportFailed(r)) =>
      \A other \in Routes \ {reqs[r].route} : \A e \in FailureErrors :
        catchResponse(other, e).data.error # reqs[r].resp.data.error

\* The handler of request r will write nothing more: it has answered, or it
\* awaits an upstream call that never settles.
Settled(r) == reqs[r].st \in {"done", "hung"}

\* C11: every inbound request on a proxied route gets exactly one answer,
\* never none and never two, whatever its handling comes to.
C11_ExactlyOneResponse ==
  \A r \in 1..MaxReqs :
    /\ reqs[r].nresp <= 1
    /\ Settled(r) => reqs[r].nresp = 1

\* C12: every upstream call has a timeout: when the upstream never answers,
\* the caller is answered with the route's gateway error, the one a
\* connection failure gets; no request stays pending.
C12_HardTimeout ==
  \A r \in 1..MaxReqs :
    reqs[r].upstream.kind = "silent" =>
      /\ Answered(r)
      /\ reqs[r].resp.status = RouteTable[reqs[r].route].catchStatus
      /\ reqs[r].resp.data.error # ""

\* External paths the binding table gives to the orders capability; every
\* other proxied path belongs to the users capability.
OrdersPaths ==
  { "/api/orders", "/api/orders/:id", "/api/admin/orders",
    "/api/admin/orders/:order_id/status", "/api/restaurant/:id/orders",
    "/api/restaurant/orders/:order_id/status" }

\* The backend type serving a capability: orders is the python server, users
\* the node server.
BoundType(route) == IF RouteTable[route].path \in OrdersPaths THEN "python" ELSE "node"

\* C13: a request is only ever forwarded to the backend of the capability its
\* route is bound to, also when that backend is flagged unhealthy and the
\* other is not; route handling never advances the round-robin counter.
C13_RouteBinding ==
  /\ roundRobinIndex = 0
  /\ \A r \in 1..MaxReqs :
       reqs[r].backend # NoBackend =>
         \E i \in Indices : /\ backends[i].id = reqs[r].backend
                            /\ backends[i].type = BoundType(reqs[r].route)

\* POST /api/orders arrived while the python backend was flagged unhealthy
\* and the node backend healthy: it was answered without being forwarded.
C13_Witness ==
  \E r \in 1..MaxReqs :
    /\ DispatchFailed(r)
    /\ RouteTable[reqs[r].route].path = "/api/orders"
    /\ ~backends[1].healthy /\ backends[2].healthy

\* C14: the healthy flags change only in a probe step of checkHealthStatus,
\* and id, url, name and type of a backend never change: no dispatch and no
\* outcome of a route handler, a transport failure included, writes the
\* registry.
C14_RegistryWrittenByMonitorOnly ==
  [][/\ backends' # backends => \E o \in ProbeOutcomes : checkHealthStatusProbe(o)
     /\ Len(backends') = Len(backends)
     /\ \A i \in Indices :
          /\ backends'[i].id = backends[i].id
          /\ backends'[i].url = backends[i].url
          /\ backends'[i].name = backends[i].name
          /\ backends'[i].type = backends[i].type]_vars

\* A request was answered after a transport failure against a backend that is
\* still flagged healthy, no probe of the running cycle having completed.
C14_Witness ==
  \E r \in 1..MaxReqs :
    /\ TransportFailed(r) /\ reqs[r].upstream.kind = "neterror"
    /\ \E i \in Indices : backends[i].id = reqs[r].backend /\ backends[i].healthy
    /\ \A i \in Indices : probeLog[i] = NoProbe

\* The flag of backends[i] has been written by a completed probe.
Probed(i) == ~monitor.first \/ i < monitor.i

\* C15: the startup probe cycle warms the registry before the first request:
\* whenever a handler dispatches, every flag getBackendByType reads for the
\* route's type has been written by a completed probe.
C15_WarmBeforeFirstRequest ==
  [][\A r \in 1..MaxReqs, route \in Routes :
       Receive(r, route, "json") =>
         \A i \in Indices : backends[i].type = RouteTable[route].type => Probed(i)]_vars

----------------------------------------------------------------------------
(* Further properties of the monitor and the load balancer, checked under SpecLB *)

\* C16: whatever the probes come to (200, another status, connection error,
\* timeout), a cycle of checkHealthStatus goes on to the next backend and ends
\* after the last one, having probed each; it touches no request and no
\* caller's result, every flag stays a boolean, and the next cycle can start.
C16_MonitorNeverFails ==
  /\ [](/\ monitor.pc \in {"await", "idle"}
        /\ \A i \in Indices : backends[i].healthy \in BOOLEAN
        /\ monitor.pc = "await" => \A o \in ProbeOutcomes : ENABLED checkHealthStatusProbe(o)
        /\ monitor.pc = "idle" =>
             /\ ENABLED checkHealthStatusStart
             /\ \A i \in Indices : probeLog[i] \in ProbeOutcomes)
  /\ [][\A o \in ProbeOutcomes : checkHealthStatusProbe(o) =>
          /\ IF monitor.i < Len(backends)
               THEN monitor'.pc = "await" /\ monitor'.i = monitor.i + 1
               ELSE monitor'.pc = "idle"
          /\ backends'[monitor.i].healthy = (o.kind = "response" /\ o.status = 200)
          /\ ret' = ret /\ reqs' = reqs]_vars

\* A cycle ended whose probes came to a connection error and a timeout.
C16_Witness ==
  /\ monitor.pc = "idle"
  /\ probeLog[1].kind = "error" /\ probeLog[2].kind = "timeout"
  /\ \A i \in Indices : backends[i].healthy = FALSE

\* C17: the counter starts at 0, never decreases and is never reset; it
\* changes only in a successful getNextBackend() call, by exactly 1.
C17_CounterMonotone ==
  /\ roundRobinIndex = 0
  /\ [][/\ roundRobinIndex' >= roundRobinIndex
        /\ (CallGetNextBackend /\ ~ret'.threw) => roundRobinIndex' = roundRobinIndex + 1
        /\ roundRobinIndex' # roundRobinIndex => (CallGetNextBackend /\ ~ret'.threw)]_vars

\* Three successful calls have been made, the last over two healthy backends.
C17_Witness ==
  /\ roundRobinIndex = 3
  /\ ret.op = "getNextBackend" /\ ~ret.threw
  /\ Live = Indices

\* C18: with a non-empty live set, getNextBackend() returns
\* liveSet[counter mod |liveSet|], liveSet being the backends flagged healthy
\* at the call, in registration order, and counter the value before the call.
C18_LiveSetIndex ==
  [][(CallGetNextBackend /\ Live # {}) =>
       ret'.backend = LiveIds[(roundRobinIndex % Len(LiveIds)) + 1]]_vars

\* With the counter at 2 and only the node backend flagged healthy the call
\* returned the node backend (over both backends it returns the python one).
C18_Witness ==
  /\ roundRobinIndex = 3
  /\ ret.op = "getNextBackend" /\ ret.backend = 2
  /\ Live = {2}

\* C19: getBackendByType(cap) changes neither the counter nor the registry,
\* and a call with the argument and the flags of the call before it gives the
\* same backend or the same failure, whatever was selected in between.
C19_ByTypeStateless ==
  [][\A type \in Types : CallGetBackendByType(type) =>
       /\ roundRobinIndex' = roundRobinIndex
       /\ backends' = backends
       /\ (ret.prev.arg = type /\ ret.prev.flags = Flags(backends)) =>
            /\ ret'.threw = ret.prev.threw
            /\ ret'.backend = ret.prev.backend
            /\ ret'.error = ret.prev.error]_vars

\* getBackendByType('java') failed again, as in the call before it, a
\* getNextBackend() call having returned a backend in between.
C19_Witness ==
  /\ ret.op = "getBackendByType" /\ ret.arg = "java" /\ ret.threw
  /\ ret.prev.again
  /\ roundRobinIndex >= 1

----------------------------------------------------------------------------
(* Property of getBackendByType over any registry, checked under SpecByType *)

\* C20: over a registry in which several backends have the same type,
\* getBackendByType(cap) returns the first backend in registration order of
\* that type flagged healthy, and throws only when there is none.
C20_FirstMatch ==
  [][\A type \in Types : CallGetBackendByType(type) =>
       LET M == {i \in 1..Len(backends) : backends[i].type = type /\ backends[i].healthy} IN
       IF M = {}
         THEN ret'.threw /\ ret'.backend = NoBackend
         ELSE /\ ~ret'.threw
              /\ \E i \in M : /\ \A j \in M : i <= j
                              /\ ret'.backend = backends[i].id]_vars

\* Three node backends, the first flagged unhealthy: the second was returned.
C20_Witness ==
  /\ Len(backends) = 3
  /\ \A i \in 1..3 : backends[i].type = "node"
  /\ ~backends[1].healthy /\ backends[2].healthy /\ backends[3].healthy
  /\ ret.op = "getBackendByType" /\ ret.arg = "node" /\ ret.backend = 2

----------------------------------------------------------------------------
(* Round-robin selection over a changing live set, checked under SpecLB *)

\* C21: round-robin over a changing live set is not sticky.  A
\* getNextBackend() call can return the backend the call before it returned
\* although another backend is flagged healthy at that call; this happens only
\* when a flag changed between the two calls, never while the flags stay as
\* they are.
C21_NotSticky ==
  [][(CallGetNextBackend /\ ~ret'.threw /\ calls'.repeat) =>
       /\ calls.last = ret'.backend
       /\ Cardinality(Live) >= 2
       /\ rrLog = << >>]_vars

\* The node backend was returned while the python backend was flagged
\* unhealthy; the python backend recovered, and the next call, over both
\* backends, returned the node backend again.
C21_Witness ==
  /\ ret.op = "getNextBackend" /\ ret.backend = 2
  /\ calls.repeat /\ calls.last = 2 /\ calls.ok = 2
  /\ rrLog = <<2>>
  /\ Live = Indices

\* C22: a getNextBackend() call that throws because no backend is flagged
\* healthy leaves the counter as it was: the counter is the number of calls
\* that returned a backend, not the number of calls made.
C22_FailedCallKeepsCounter ==
  /\ [](roundRobinIndex = calls.ok)
  /\ [][(CallGetNextBackend /\ ret'.threw) =>
          /\ roundRobinIndex' = roundRobinIndex
          /\ calls'.ok = calls.ok]_vars

\* Two calls returned a backend and a third call threw: the counter is 2.
C22_Witness ==
  /\ ret.op = "getNextBackend" /\ ret.threw
  /\ calls.ok = 2 /\ roundRobinIndex = 2
  /\ Live = {}

----------------------------------------------------------------------------
(* Dispatch in the route handlers, checked under SpecProxy *)

\* Indices of the backends a route requires: those of its type.
Required(route) == {i \in Indices : backends[i].type = RouteTable[route].type}

\* C23: when the backend a route requires is flagged unhealthy as the handler
\* dispatches, no upstream call is made to any backend and the caller gets the
\* route's error answer at once; otherwise the upstream call goes to a
\* required backend whose flag is true at that moment.  A handler comes to
\* await an upstream call only by such a dispatch of a newly arrived request.
C23_NoForwardToUnhealthy ==
  [][\A r \in 1..MaxReqs :
       /\ (reqs[r].st # "await" /\ reqs'[r].st = "await") => reqs[r].st = "idle"
       /\ (reqs[r].st = "idle" /\ reqs'[r].st # "idle" /\ reqs'[r].via # "fallback") =>
         LET route == reqs'[r].route IN
         /\ Receive(r, route, "json")
         /\ IF \A i \in Required(route) : ~backends[i].healthy
              THEN /\ reqs'[r].st = "done"
                   /\ reqs'[r].backend = NoBackend
                   /\ reqs'[r].upstream = NoOutcome
                   /\ reqs'[r].nresp = 1
                   /\ reqs'[r].resp.status = RouteTable[route].catchStatus
                   /\ reqs'[r].resp.status >= 400
                   /\ reqs'[r].resp.data.error # ""
              ELSE /\ reqs'[r].st = "await"
                   /\ \E i \in Required(route) :
                        /\ backends[i].healthy
                        /\ reqs'[r].backend = backends[i].id]_vars

\* POST /api/auth/register arrived while the node backend was flagged
\* unhealthy and the python backend healthy: it was answered 500
\* 'Registration failed' and no upstream call was made.
C23_Witness ==
  \E r \in 1..MaxReqs :
    /\ Answered(r) /\ reqs[r].via = "catch"
    /\ RouteTable[reqs[r].route].path = "/api/auth/register"
    /\ reqs[r].backend = NoBackend /\ reqs[r].upstream = NoOutcome
    /\ reqs[r].resp = [status |-> 500, data |-> Json("Registration failed", "")]
    /\ backends[1].healthy /\ ~backends[2].healthy

----------------------------------------------------------------------------
(* Recovery of a backend, checked under SpecMonitorFair *)

\* Every probe of backends[i] recorded in the log answered 200.  The log is
\* cleared when a cycle starts, so this holds from some point on exactly when
\* every probe of backends[i] from then on answers 200.
ProbesAnswer200(i) ==
  \/ probeLog[i] = NoProbe
  \/ probeLog[i].kind = "response" /\ probeLog[i].status = 200

\* Selection over the registry bs returns bs[i]: getBackendByType for its
\* type does, and getNextBackend() does for some value of the counter.
SelectableIn(bs, i) ==
  /\ getBackendByType(bs, bs[i].type).backend = bs[i].id
  /\ \E idx \in 0..MaxIndex : getNextBackend(bs, idx).backend = bs[i].id

Selectable(i) == SelectableIn(backends, i)

\* C24: an unhealthy flag is not permanent.  A probe answered with 200 sets
\* the flag of the probed backend to true in that step, whatever it was, and
\* a backend flagged healthy is returned by getBackendByType and by
\* getNextBackend(); with the monitor scheduled fairly, a backend whose probes
\* all answer 200 from some point on is from some point on always selectable.
C24_Recovery ==
  /\ [][\A o \in ProbeOutcomes :
          (checkHealthStatusProbe(o) /\ o.kind = "response" /\ o.status = 200) =>
            /\ backends'[monitor.i].healthy
            /\ SelectableIn(backends', monitor.i)]_vars
  /\ [](\A i \in Indices : backends[i].healthy => Selectable(i))
  /\ \A i \in Indices : <>[]ProbesAnswer200(i) => <>[]Selectable(i)

\* getNextBackend() threw because no backend was flagged healthy; since then
\* the python backend answered 200 to its probe and is selectable again.
C24_Witness ==
  /\ ret.op = "getNextBackend" /\ ret.threw
  /\ probeLog[1].kind = "response" /\ probeLog[1].status = 200
  /\ backends[1].healthy /\ Selectable(1)
  /\ monitor.pc = "await" /\ monitor.i = 2 /\ ~backends[2].healthy

----------------------------------------------------------------------------
(* Atomicity of round-robin selection, checked under SpecSelect *)

\* C25: getNextBackend() is one uninterrupted step beside awaiting handlers
\* and the monitor.  The step that returns a backend reads the counter,
\* returns a backend flagged healthy in that very state and increments the
\* counter, while registry, monitor and requests stay as they are; a probe
\* update writes one flag, so the flags a selection reads are those left by
\* whole probe updates.  No two selections read the same counter value, and
\* only a selection moves the counter.
C25_AtomicSelection ==
  /\ [](Cardinality(calls.used) = calls.ok)
  /\ [][/\ (CallGetNextBackend /\ ~ret'.threw) =>
             /\ roundRobinIndex \notin calls.used
             /\ calls'.used = calls.used \cup {roundRobinIndex}
             /\ roundRobinIndex' = roundRobinIndex + 1
             /\ backends' = backends /\ monitor' = monitor /\ reqs' = reqs
             /\ \E i \in Live : /\ ret'.backend = backends[i].id
                                /\ ret'.backend = LiveIds[(roundRobinIndex % Len(LiveIds)) + 1]
        /\ roundRobinIndex' # roundRobinIndex => CallGetNextBackend
        /\ \A o \in ProbeOutcomes : checkHealthStatusProbe(o) =>
             \A j \in Indices \ {monitor.i} : backends'[j] = backends[j]]_vars

\* POST /api/orders was forwarded to the python backend and is awaited; the
\* startup probe of the python backend then failed, and before the probe of
\* the node backend settled two selections were made, with counter values 0
\* and 1, both returning the node backend.
C25_Witness ==
  /\ \E r \in 1..MaxReqs : /\ reqs[r].st = "await" /\ reqs[r].route = 7
                           /\ reqs[r].backend = 1
  /\ monitor.first /\ monitor.pc = "await" /\ monitor.i = 2
  /\ probeLog[1].kind = "error" /\ ~backends[1].healthy
  /\ ret.op = "getNextBackend" /\ rrLog = <<2, 2>>
  /\ calls.used = {0, 1} /\ roundRobinIndex = 2

====
